---- MODULE Spec2Model ----
(***************************************************************************)
(* A model of crawler.js: the feed aggregator (fetchDomains), the scan     *)
(* state store (loadScannedDomains / saveScannedDomains), the result store *)
(* (getNextResultFile / saveResults), the frontier crawler (crawlDomain)   *)
(* and the run controller (main).                                          *)
(*                                                                         *)
(* Strings are sequences of one-character strings, a text is the sequence  *)
(* of its lines (what split('\n') returns), a JavaScript Set is the        *)
(* duplicate-free sequence of its elements in insertion order, and a file  *)
(* holding JSON is the value JSON.parse returns for it.                    *)
(***************************************************************************)
EXTENDS Integers, Sequences, FiniteSets, TLC

(***************************************************************************)
(* Program constants.                                                      *)
(***************************************************************************)
MAX_FILE_SIZE == 20 * 1024 * 1024

MAX_DOMAIN_ATTEMPTS == 10

MaxVisited == 50

MaxQueue == 100

MaxLinksPerPage == 10

(***************************************************************************)
(* Bounds of the model.                                                    *)
(***************************************************************************)
\* crawls that may still return forms in one behaviour (bounds the shards)
MaxYields == 2

\* storage operations the environment may fail in one behaviour (SpecFault)
MaxIoFaults == 1

\* readings of the wall clock that return a later time than the one before
MaxClock == 1

\* renderer calls (launch, newContext, newPage, close) that may reject
MaxRendererFaults == 1

\* pages whose navigation or evaluation may fail
MaxPageFaults == 1

\* calls of saveResults made on their own (SpecStore)
MaxSaves == 5

(***************************************************************************)
(* Helpers over sequences.                                                 *)
(***************************************************************************)
Range(s) == {s[i] : i \in 1..Len(s)}

Contains(s, x) == \E i \in 1..Len(s) : s[i] = x

Min(a, b) == IF a < b THEN a ELSE b

\* Set.prototype.add on an insertion-ordered set
SetAdd(s, x) == IF Contains(s, x) THEN s ELSE Append(s, x)

(***************************************************************************)
(* fetchDomains (lines 17-50).                                             *)
(***************************************************************************)
IsSpace(c) == c = " "

RECURSIVE TrimStart(_)
TrimStart(s) ==
  IF s # <<>> /\ IsSpace(Head(s)) THEN TrimStart(Tail(s)) ELSE s

RECURSIVE TrimEnd(_)
TrimEnd(s) ==
  IF s # <<>> /\ IsSpace(s[Len(s)]) THEN TrimEnd(SubSeq(s, 1, Len(s) - 1)) ELSE s

\* String.prototype.trim
Trim(s) == TrimEnd(TrimStart(s))

\* trimmed.startsWith('#')
StartsWithHash(s) == s # <<>> /\ Head(s) = "#"

\* s.startsWith('*.')
StartsWithWildcard(s) == Len(s) >= 2 /\ s[1] = "*" /\ s[2] = "."

\* trimmed.replace(/^\*\./, ''): one leading "*." is removed
StripWildcard(s) == IF StartsWithWildcard(s) THEN SubSeq(s, 3, Len(s)) ELSE s

\* the callback of the forEach over the exact-domain list (lines 23-28)
AddDomainLine(domains, line) ==
  LET trimmed == Trim(line)
  IN  IF trimmed # <<>> /\ ~StartsWithHash(trimmed)
        THEN SetAdd(domains, trimmed) ELSE domains

\* the forEach itself; the set after a line is bound to its value before
\* the next line is taken
RECURSIVE AddDomainLines(_, _)
AddDomainLines(domains, lines) ==
  IF lines = <<>> THEN domains
  ELSE CHOOSE result \in
         {AddDomainLines(next, Tail(lines)) : next \in {AddDomainLine(domains, Head(lines))}} :
         TRUE

\* the callback of the forEach over the wildcard list (lines 36-44)
AddWildcardLine(domains, line) ==
  LET trimmed == Trim(line)
      cleaned == StripWildcard(trimmed)
  IN  IF trimmed # <<>> /\ ~StartsWithHash(trimmed) /\ cleaned # <<>>
        THEN SetAdd(domains, cleaned) ELSE domains

RECURSIVE AddWildcardLines(_, _)
AddWildcardLines(domains, lines) ==
  IF lines = <<>> THEN domains
  ELSE CHOOSE result \in
         {AddWildcardLines(next, Tail(lines)) : next \in {AddWildcardLine(domains, Head(lines))}} :
         TRUE

\* fetchDomains: a fetch that throws is caught and contributes nothing
fetchDomains(domainsText, wildcardsText, domainsOk, wildcardsOk) ==
  CHOOSE result \in
    {IF wildcardsOk THEN AddWildcardLines(afterDomains, wildcardsText) ELSE afterDomains :
       afterDomains \in {IF domainsOk THEN AddDomainLines(<<>>, domainsText) ELSE <<>>}} :
    TRUE

(***************************************************************************)
(* Scan state store (lines 52-65).  The content of stat/scanned.json is a  *)
(* record: t is "missing" (no file, or an unreadable one), "garbage" (not  *)
(* JSON), "null" (the JSON null), "prim" (a JSON number, string or         *)
(* boolean) or "obj" (a JSON object); of an object, hasScanned tells       *)
(* whether it has an array property scanned, and lastUpdate = 0 stands for *)
(* null.  The same records are the JavaScript values main holds in stats.  *)
(***************************************************************************)
ScanState(scanned, lastUpdate) ==
  [t |-> "obj", hasScanned |-> TRUE, scanned |-> scanned, lastUpdate |-> lastUpdate]

NoStatFile == [t |-> "missing", hasScanned |-> FALSE, scanned |-> <<>>, lastUpdate |-> 0]

\* loadScannedDomains: readFile or JSON.parse throwing gives the default,
\* anything that parses is returned as it is
loadScannedDomains(file) ==
  IF file.t \in {"missing", "garbage"} THEN ScanState(<<>>, 0) ELSE file

\* saveScannedDomains: writeFile(statsFile, JSON.stringify(data, null, 2));
\* the new content of the file, the old one when the write fails
saveScannedDomains(file, data, writeOk) == IF writeOk THEN data ELSE file

(***************************************************************************)
(* Result store (lines 67-100).  A shard name is forms.json (indexed =     *)
(* FALSE) or forms_<n>.json; the directory maps the names present to files *)
(* [data, size], size being the byte length of the pretty-printed array.   *)
(***************************************************************************)
FormsJson == [indexed |-> FALSE, n |-> 0]

FormsN(n) == [indexed |-> TRUE, n |-> n]

\* the sort key: numA && numA[2] ? parseInt(numA[2]) : 0
ShardIndex(name) == IF name.indexed THEN name.n ELSE 0

\* JSON.stringify(allForms, null, 2).length: "[]" for no record, else
\* "[\n" + records joined by ",\n" + "\n]"
RECURSIVE SumBytes(_)
SumBytes(recs) == IF recs = <<>> THEN 0 ELSE Head(recs).bytes + 2 + SumBytes(Tail(recs))

FileBytes(recs) == 2 + SumBytes(recs)

ShardFile(recs) == [data |-> recs, size |-> FileBytes(recs)]

EmptyDir == [name \in {} |-> ShardFile(<<>>)]

\* formFiles[0] after the descending sort
LastShard(files) == CHOOSE f \in files : \A g \in files : ShardIndex(g) <= ShardIndex(f)

BelowCeilingInclusive(statOk, size) == statOk /\ size <= MAX_FILE_SIZE

\* stats && stats.size < MAX_FILE_SIZE
BelowCeiling(statOk, size) == statOk /\ size < MAX_FILE_SIZE

NextIndexFromZero(name) == IF name.indexed THEN name.n + 1 ELSE 0

\* lastIndex && lastIndex[2] ? parseInt(lastIndex[2]) + 1 : 1
NextIndex(name) == IF name.indexed THEN name.n + 1 ELSE 1

\* getNextResultFile: listOk = FALSE is readdir rejecting (caught, no file
\* seen), statOk = FALSE is stat rejecting (caught, null)
getNextResultFile(dir, listOk, statOk) ==
  LET formFiles == IF listOk THEN DOMAIN dir ELSE {}
  IN  IF formFiles = {} THEN [path |-> FormsJson, data |-> <<>>, read |-> FALSE]
      ELSE LET lastFile == LastShard(formFiles)
           IN  IF BelowCeiling(statOk, dir[lastFile].size)
                 THEN [path |-> lastFile, data |-> dir[lastFile].data, read |-> TRUE]
                 ELSE [path |-> FormsN(NextIndex(lastFile)), data |-> <<>>, read |-> FALSE]

\* writeFile(path, content) on the directory
WriteShard(dir, path, recs) ==
  [name \in (DOMAIN dir) \cup {path} |-> IF name = path THEN ShardFile(recs) ELSE dir[name]]

AllFormsPrepend(existingForms, forms) == forms \o existingForms

\* allForms = [...existingForms, ...forms]
AllForms(existingForms, forms) == existingForms \o forms

\* the storage outcomes of one saveResults call
IoKinds == {"ok", "listFail", "statFail", "readFail", "writeFail"}

\* saveResults throws when the read of the chosen shard or the write fails
saveResultsThrows(dir, io) ==
  \/ io = "writeFail"
  \/ io = "readFail" /\ getNextResultFile(dir, TRUE, TRUE).read

\* saveResults: the directory after the call
saveResults(dir, forms, io) ==
  LET target == getNextResultFile(dir, io # "listFail", io # "statFail")
  IN  IF saveResultsThrows(dir, io) THEN dir
      ELSE WriteShard(dir, target.path, AllForms(target.data, forms))

\* every record of the store, shard by shard in index order
RECURSIVE AllRecords(_)
AllRecords(dir) ==
  IF DOMAIN dir = {} THEN <<>>
  ELSE LET last == LastShard(DOMAIN dir)
       IN  AllRecords([name \in (DOMAIN dir) \ {last} |-> dir[name]]) \o dir[last].data

(***************************************************************************)
(* The state.  The environment: the two remote lists, whether fetches may  *)
(* fail, the storage failures and form-yielding crawls still to come, the  *)
(* wall clock.  The disk: stat/scanned.json and the result directory.      *)
(* main: its position pc and its locals.  History of the current run:      *)
(* loadedScanned, attempted, yieldAt, yieldForms, dirAtStart, statAtStart; *)
(* lastThrew, whether the last call of crawlDomain threw, runForms, all    *)
(* forms crawlDomain returned, storageFailed, whether a shard read or      *)
(* write or a scan state write has failed in the run; of all runs:         *)
(* everAttempted, the domains crawlDomain was called for.                  *)
(***************************************************************************)
VARIABLES domainsFeed, wildcardsFeed, netFaulty, ioFaults, yields, clock,
          statFile, resultDir,
          pc, allDomains, stats, unscannedDomains, formsFound, domainIndex,
          maxAttempts, forms,
          loadedScanned, attempted, yieldAt, yieldForms, dirAtStart, statAtStart,
          everAttempted, lastThrew, runForms, storageFailed,
          cpc, domain, browsers, rendererFaults, pageFaults,
          visited, toVisit, crawlForms, url, navigated, offered, enqueued,
          firstEnqueued,
          saves, dirBefore, lastForms, lastTarget, allGiven

envVars == <<domainsFeed, wildcardsFeed, netFaulty, ioFaults, yields, clock>>

diskVars == <<statFile, resultDir>>

mainVars == <<pc, allDomains, stats, unscannedDomains, formsFound, domainIndex,
              maxAttempts, forms>>

\* the history that storage calls leave alone
runHist == <<loadedScanned, attempted, yieldAt, yieldForms, dirAtStart, statAtStart,
             everAttempted, lastThrew, runForms>>

histVars == <<runHist, storageFailed>>

\* crawlDomain: its position cpc, its argument, the browsers open, the
\* renderer and page failures still to come, its locals, and of the current
\* crawl the URLs navigated to in order and, of the last page evaluated, the
\* links it offered and the links enqueued for it, and the URLs pushed to
\* the queue, each once, in the order of their first push
crawlVars == <<cpc, domain, browsers, rendererFaults, pageFaults,
               visited, toVisit, crawlForms, url, navigated, offered, enqueued,
               firstEnqueued>>

\* history of the calls of saveResults made on their own: their number, the
\* directory before the last call, the records it was given, what
\* getNextResultFile returned to it, and all records given so far
storeVars == <<saves, dirBefore, lastForms, lastTarget, allGiven>>

(***************************************************************************)
(* The environment's choices.                                              *)
(***************************************************************************)
Letters == <<"a", "b", "c", "d", "e", "f", "g", "h", "i", "j", "k", "l", "m", "n", "o", "p">>

\* the number of lines of the long exact-domain list
FeedSize == 11

\* a short feed with blank, padded, comment and wildcard lines: a, b, c
SmallDomainsText == << <<"a">>, <<" ", "b", " ">>, <<"#", "c">>, <<>> >>

SmallWildcardsText == << <<"*", ".", "c">>, <<"*", ".", "a">>, <<"*", ".">> >>

\* a feed of more domains than one run attempts
LargeDomainsText == [i \in 1..FeedSize |-> <<Letters[i]>>]

LargeWildcardsText == << <<"*", ".", Letters[FeedSize + 1]>> >>

\* the environments explored: a short feed whose fetches may fail and whose
\* crawls may return forms MaxYields times, a long feed with one crawl that
\* may return forms, an empty feed
Scenarios ==
  {[domains |-> SmallDomainsText, wildcards |-> SmallWildcardsText,
    net |-> n, yields |-> MaxYields] : n \in BOOLEAN}
  \cup {[domains |-> LargeDomainsText, wildcards |-> LargeWildcardsText,
          net |-> FALSE, yields |-> 1],
        [domains |-> <<>>, wildcards |-> <<>>, net |-> TRUE, yields |-> 0]}

\* fetch(url) resolving (TRUE) or rejecting (FALSE)
FetchOutcomes == IF netFaulty THEN {TRUE, FALSE} ELSE {TRUE}

\* a storage call succeeding (TRUE) or failing (FALSE)
WriteOutcomes == IF ioFaults > 0 THEN {TRUE, FALSE} ELSE {TRUE}

StoreOutcomes == IF ioFaults > 0 THEN IoKinds ELSE {"ok"}

\* new Date(): the time read is the last one read or a later one
ClockReadings == IF clock < 1 + MaxClock THEN {clock, clock + 1} ELSE {clock}

\* serialized lengths of form records: two big records fill a shard to
\* exactly MAX_FILE_SIZE bytes
SmallBytes == 100

BigBytes == (MAX_FILE_SIZE - 2) \div 2 - 2

Url(dom, page) == [host |-> dom, page |-> page]

Form(dom, page, k, bytes) == [url |-> Url(dom, page), k |-> k, bytes |-> bytes]

\* what crawlDomain(dom) can hand to main: it throws (launch, newContext,
\* newPage or close rejecting) or returns the forms it collected
CrawlOutcomes(dom) ==
  {[threw |-> TRUE, forms |-> <<>>], [threw |-> FALSE, forms |-> <<>>]}
  \cup (IF yields > 0
          THEN {[threw |-> FALSE, forms |-> fs] :
                  fs \in { <<Form(dom, 1, 1, SmallBytes), Form(dom, 2, 1, SmallBytes)>>,
                           <<Form(dom, 1, 1, BigBytes)>> }}
          ELSE {})

(***************************************************************************)
(* main (lines 236-299).                                                   *)
(***************************************************************************)
\* new Set(stats.scanned || [])
ScannedSet(st) == IF st.hasScanned THEN Range(st.scanned) ELSE {}

\* allDomains.filter(d => !scannedSet.has(d))
Unscanned(all, st) == SelectSeq(all, LAMBDA d : d \notin ScannedSet(st))

MaxAttemptsNoCap(unscanned) == Len(unscanned)

\* Math.min(unscannedDomains.length, MAX_DOMAIN_ATTEMPTS)
MaxAttempts(unscanned) == Min(Len(unscanned), MAX_DOMAIN_ATTEMPTS)

ResetStatsKeep(st, now) == [st EXCEPT !.lastUpdate = now]

\* stats.scanned = []; stats.lastUpdate = now (lines 252-253); on a
\* primitive the two assignments are dropped (the script is not strict)
ResetStats(st, now) == IF st.t = "obj" THEN ScanState(<<>>, now) ELSE st

\* stats.scanned.push throws a TypeError unless stats.scanned is an array
CanPush(st) == st.hasScanned

PushStatsNoPush(st, dom, now) == [st EXCEPT !.lastUpdate = now]

\* stats.scanned.push(domainToCrawl); stats.lastUpdate = now
PushStats(st, dom, now) ==
  [st EXCEPT !.scanned = Append(@, dom), !.lastUpdate = now]

LoopGuardNoStop == domainIndex < maxAttempts

\* while (!formsFound && domainIndex < maxAttempts)
LoopGuard == ~formsFound /\ domainIndex < maxAttempts

\* lines 237-248 and 258-260: fetch the feeds, load the scan state, filter
Begin ==
  /\ UNCHANGED <<crawlVars, storeVars>>
  /\ pc \in {"idle", "done", "crashed"}
  /\ \E domainsOk \in FetchOutcomes, wildcardsOk \in FetchOutcomes :
       \E all \in {fetchDomains(domainsFeed, wildcardsFeed, domainsOk, wildcardsOk)},
          st \in {loadScannedDomains(statFile)} :
         \E uns \in {Unscanned(all, st)} :
           /\ allDomains' = all
           /\ stats' = st
           /\ IF st.t = "null"
                THEN /\ pc' = "crashed"
                     /\ unscannedDomains' = <<>>
                     /\ maxAttempts' = 0
                     /\ loadedScanned' = {}
                ELSE /\ pc' = IF Len(uns) = 0 THEN "reset" ELSE "loop"
                     /\ unscannedDomains' = uns
                     /\ maxAttempts' = MaxAttempts(uns)
                     /\ loadedScanned' = ScannedSet(st)
  /\ formsFound' = FALSE
  /\ domainIndex' = 0
  /\ forms' = <<>>
  /\ attempted' = <<>>
  /\ yieldAt' = 0
  /\ yieldForms' = <<>>
  /\ dirAtStart' = resultDir
  /\ statAtStart' = statFile
  /\ lastThrew' = FALSE
  /\ runForms' = <<>>
  /\ storageFailed' = FALSE
  /\ UNCHANGED <<envVars, diskVars, everAttempted>>

\* lines 250-256: the full reset
Reset ==
  /\ UNCHANGED <<crawlVars, storeVars>>
  /\ pc = "reset"
  /\ \E now \in ClockReadings, writeOk \in WriteOutcomes :
       /\ clock' = now
       /\ stats' = ResetStats(stats, now)
       /\ statFile' = saveScannedDomains(statFile, stats', writeOk)
       /\ pc' = IF writeOk THEN "done" ELSE "crashed"
       /\ ioFaults' = IF writeOk THEN ioFaults ELSE ioFaults - 1
       /\ storageFailed' = (storageFailed \/ ~writeOk)
  /\ UNCHANGED <<domainsFeed, wildcardsFeed, netFaulty, yields, resultDir,
                 allDomains, unscannedDomains, formsFound, domainIndex,
                 maxAttempts, forms, runHist>>

\* lines 262-267: the loop test and the call of crawlDomain
Crawl ==
  /\ UNCHANGED <<crawlVars, storeVars>>
  /\ pc = "loop"
  /\ LoopGuard
  /\ LET domainToCrawl == unscannedDomains[domainIndex + 1]
     IN  \E out \in CrawlOutcomes(domainToCrawl) :
           /\ forms' = out.forms
           /\ pc' = IF out.threw THEN "catch" ELSE "crawled"
           /\ attempted' = Append(attempted, domainToCrawl)
           /\ lastThrew' = out.threw
           /\ runForms' = runForms \o out.forms
           /\ everAttempted' = everAttempted \cup {domainToCrawl}
           /\ yields' = IF Len(out.forms) > 0 THEN yields - 1 ELSE yields
           /\ yieldAt' = IF Len(out.forms) > 0 /\ yieldAt = 0 THEN domainIndex + 1 ELSE yieldAt
           /\ yieldForms' = IF Len(out.forms) > 0 /\ yieldAt = 0 THEN out.forms ELSE yieldForms
  /\ UNCHANGED <<domainsFeed, wildcardsFeed, netFaulty, ioFaults, clock, diskVars,
                 allDomains, stats, unscannedDomains, formsFound, domainIndex,
                 maxAttempts, loadedScanned, dirAtStart, statAtStart, storageFailed>>

\* lines 270-276: forms found are saved, and only then formsFound is set
Store ==
  /\ UNCHANGED <<crawlVars, storeVars>>
  /\ pc = "crawled"
  /\ IF Len(forms) > 0
       THEN \E io \in StoreOutcomes :
              /\ resultDir' = saveResults(resultDir, forms, io)
              /\ formsFound' = ~saveResultsThrows(resultDir, io)
              /\ pc' = IF saveResultsThrows(resultDir, io) THEN "catch" ELSE "mark"
              /\ ioFaults' = IF io = "ok" THEN ioFaults ELSE ioFaults - 1
              /\ storageFailed' = (storageFailed \/ saveResultsThrows(resultDir, io))
       ELSE /\ pc' = "mark"
            /\ UNCHANGED <<resultDir, formsFound, ioFaults, storageFailed>>
  /\ UNCHANGED <<domainsFeed, wildcardsFeed, netFaulty, yields, clock, statFile,
                 allDomains, stats, unscannedDomains, domainIndex, maxAttempts,
                 forms, runHist>>

\* lines 278-281 and 291: the domain is marked scanned and the state saved
Mark ==
  /\ UNCHANGED <<crawlVars, storeVars>>
  /\ pc = "mark"
  /\ IF CanPush(stats)
       THEN \E now \in ClockReadings, writeOk \in WriteOutcomes :
              /\ clock' = now
              /\ stats' = PushStats(stats, unscannedDomains[domainIndex + 1], now)
              /\ statFile' = saveScannedDomains(statFile, stats', writeOk)
              /\ pc' = IF writeOk THEN "loop" ELSE "catch"
              /\ domainIndex' = IF writeOk THEN domainIndex + 1 ELSE domainIndex
              /\ ioFaults' = IF writeOk THEN ioFaults ELSE ioFaults - 1
              /\ storageFailed' = (storageFailed \/ ~writeOk)
       ELSE /\ pc' = "catch"
            /\ UNCHANGED <<clock, stats, statFile, domainIndex, ioFaults, storageFailed>>
  /\ UNCHANGED <<domainsFeed, wildcardsFeed, netFaulty, yields, resultDir,
                 allDomains, unscannedDomains, formsFound, maxAttempts, forms,
                 runHist>>

CatchNoMark ==
  /\ UNCHANGED <<crawlVars, storeVars>>
  /\ pc = "catch"
  /\ pc' = IF CanPush(stats) THEN "loop" ELSE "crashed"
  /\ domainIndex' = IF CanPush(stats) THEN domainIndex + 1 ELSE domainIndex
  /\ UNCHANGED <<envVars, diskVars, allDomains, stats, unscannedDomains,
                 formsFound, maxAttempts, forms, histVars>>

CatchRethrow ==
  /\ UNCHANGED <<crawlVars, storeVars>>
  /\ pc = "catch"
  /\ pc' = "crashed"
  /\ UNCHANGED <<envVars, diskVars, allDomains, stats, unscannedDomains,
                 formsFound, domainIndex, maxAttempts, forms, histVars>>

\* lines 283-291: the handler of the try block marks the domain scanned too
Catch ==
  /\ UNCHANGED <<crawlVars, storeVars>>
  /\ pc = "catch"
  /\ IF CanPush(stats)
       THEN \E now \in ClockReadings, writeOk \in WriteOutcomes :
              /\ clock' = now
              /\ stats' = PushStats(stats, unscannedDomains[domainIndex + 1], now)
              /\ statFile' = saveScannedDomains(statFile, stats', writeOk)
              /\ pc' = IF writeOk THEN "loop" ELSE "crashed"
              /\ domainIndex' = IF writeOk THEN domainIndex + 1 ELSE domainIndex
              /\ ioFaults' = IF writeOk THEN ioFaults ELSE ioFaults - 1
              /\ storageFailed' = (storageFailed \/ ~writeOk)
       ELSE /\ pc' = "crashed"
            /\ UNCHANGED <<clock, stats, statFile, domainIndex, ioFaults, storageFailed>>
  /\ UNCHANGED <<domainsFeed, wildcardsFeed, netFaulty, yields, resultDir,
                 allDomains, unscannedDomains, formsFound, maxAttempts, forms,
                 runHist>>

\* lines 294-299: the loop is left and main returns
Finish ==
  /\ UNCHANGED <<crawlVars, storeVars>>
  /\ pc = "loop"
  /\ ~LoopGuard
  /\ pc' = "done"
  /\ UNCHANGED <<envVars, diskVars, allDomains, stats, unscannedDomains,
                 formsFound, domainIndex, maxAttempts, forms, histVars>>

vars == <<envVars, diskVars, mainVars, histVars, crawlVars, storeVars>>

Next == Begin \/ Reset \/ Crawl \/ Store \/ Mark \/ Catch \/ Finish

\* before the first run: nothing on disk
InitMain ==
  /\ \E sc \in Scenarios :
       /\ domainsFeed = sc.domains
       /\ wildcardsFeed = sc.wildcards
       /\ netFaulty = sc.net
       /\ yields = sc.yields
  /\ clock = 1
  /\ resultDir = EmptyDir
  /\ pc = "idle"
  /\ allDomains = <<>>
  /\ stats = ScanState(<<>>, 0)
  /\ unscannedDomains = <<>>
  /\ formsFound = FALSE
  /\ domainIndex = 0
  /\ maxAttempts = 0
  /\ forms = <<>>
  /\ loadedScanned = {}
  /\ attempted = <<>>
  /\ yieldAt = 0
  /\ yieldForms = <<>>
  /\ dirAtStart = EmptyDir
  /\ statAtStart = NoStatFile
  /\ everAttempted = {}
  /\ lastThrew = FALSE
  /\ runForms = <<>>
  /\ storageFailed = FALSE

\* no crawl in progress and no browser open
CrawlIdle ==
  /\ cpc = "idle"
  /\ domain = <<>>
  /\ browsers = 0
  /\ visited = {}
  /\ toVisit = <<>>
  /\ crawlForms = <<>>
  /\ url = Url(<<>>, 0)
  /\ navigated = <<>>
  /\ offered = 0
  /\ enqueued = 0
  /\ firstEnqueued = <<>>

\* saveResults not yet called on its own
StoreIdle ==
  /\ saves = 0
  /\ dirBefore = EmptyDir
  /\ lastForms = <<>>
  /\ lastTarget = getNextResultFile(EmptyDir, TRUE, TRUE)
  /\ allGiven = <<>>

\* a sound storage and no scan state yet
Init ==
  /\ InitMain
  /\ CrawlIdle
  /\ StoreIdle
  /\ rendererFaults = 0
  /\ pageFaults = 0
  /\ ioFaults = 0
  /\ statFile = NoStatFile

Spec == Init /\ [][Next]_vars

\* repeated runs on a fixed feed: every fetch and every storage call
\* succeeds, the job is started again after each run and every await settles
InitLive ==
  /\ Init
  /\ netFaulty = FALSE

SpecLive == InitLive /\ [][Next]_vars /\ WF_vars(Next)

(***************************************************************************)
(* Properties of the run controller.                                       *)
(***************************************************************************)
PersistedScanned == ScannedSet(statFile)

\* C1 (first success wins): when a run ends in which the N-th unscanned
\* domain was the first whose crawl returned forms, exactly the first N
\* unscanned domains were attempted, all N are in the persisted scanned
\* list, and the result store holds what it held at the start of the run
\* followed by the forms of the N-th domain and nothing else.
FirstSuccessWins ==
  (pc = "done" /\ yieldAt > 0) =>
    /\ yieldAt <= MAX_DOMAIN_ATTEMPTS
    /\ Len(attempted) = yieldAt
    /\ attempted = SubSeq(unscannedDomains, 1, yieldAt)
    /\ Range(attempted) \subseteq PersistedScanned
    /\ \A i \in 1..Len(yieldForms) : yieldForms[i].url.host = unscannedDomains[yieldAt]
    /\ AllRecords(resultDir) = AllRecords(dirAtStart) \o yieldForms

\* a run ended whose tenth attempt was the first to return forms
FirstSuccessWitness ==
  pc = "done" /\ yieldAt = MAX_DOMAIN_ATTEMPTS /\ Len(yieldForms) > 0

\* C2 (attempt budget): the domains attempted are a prefix, in collection
\* order, of the universe minus the loaded scanned set, none of them was in
\* the loaded scanned set, their number never exceeds
\* min(|unscanned|, 10) and equals it when a run ends without any forms.
AttemptBudget ==
  LET unscanned == SelectSeq(allDomains, LAMBDA d : d \notin loadedScanned)
      budget == IF Len(unscanned) < 10 THEN Len(unscanned) ELSE 10
  IN  /\ Len(attempted) <= budget
      /\ attempted = SubSeq(unscanned, 1, Len(attempted))
      /\ Range(attempted) \cap loadedScanned = {}
      /\ (pc = "done" /\ yieldAt = 0) => Len(attempted) = budget

\* a run over more than ten unscanned domains ended without forms
AttemptBudgetWitness ==
  /\ pc = "done"
  /\ yieldAt = 0
  /\ Len(unscannedDomains) > MAX_DOMAIN_ATTEMPTS
  /\ Len(attempted) = MAX_DOMAIN_ATTEMPTS

\* C3 (progress persisted after every attempt): in a run that attempts
\* domains, the persisted scanned list holds, at every point, exactly the
\* domains loaded at the start and the domains whose attempt completed; at
\* most one attempted domain, the one in flight, is missing from it; and
\* whenever the loop is about to test for the next domain, the file holds
\* the in-memory state, ends with the last attempted domain and carries the
\* time read when that domain was marked.
ProgressPersisted ==
  (pc \in {"loop", "crawled", "mark", "catch", "done"} /\ Len(unscannedDomains) > 0) =>
    /\ PersistedScanned = loadedScanned \cup Range(SubSeq(attempted, 1, domainIndex))
    /\ Len(attempted) - domainIndex \in {0, 1}
    /\ (pc \in {"loop", "done"} /\ domainIndex > 0) =>
         /\ Len(attempted) = domainIndex
         /\ statFile = stats
         /\ statFile.scanned[Len(statFile.scanned)] = attempted[domainIndex]
         /\ statFile.lastUpdate = clock

\* the third crawl of a run has returned forms: two attempts are persisted,
\* the third domain is in flight
ProgressPersistedWitness ==
  /\ pc = "crawled"
  /\ domainIndex = 2
  /\ Len(attempted) = 3
  /\ Len(forms) > 0

\* C4 (full reset): a run that starts with nothing unscanned ends with the
\* persisted state scanned = [] and lastUpdate = the time read by the
\* reset; it calls crawlDomain for no domain and leaves the result store as
\* it was.
FullReset ==
  /\ (pc = "reset") => (attempted = <<>> /\ resultDir = dirAtStart)
  /\ (pc = "done" /\ Len(unscannedDomains) = 0) =>
       /\ statFile = ScanState(<<>>, clock)
       /\ attempted = <<>>
       /\ resultDir = dirAtStart

\* a reset run ended that had loaded every domain of the universe as scanned
FullResetWitness ==
  /\ pc = "done"
  /\ Len(unscannedDomains) = 0
  /\ allDomains # <<>>
  /\ loadedScanned = Range(allDomains)
  /\ statFile.scanned = <<>>

\* the domains of the fixed feed
Universe == fetchDomains(domainsFeed, wildcardsFeed, TRUE, TRUE)

\* C5 (forward progress): every run that starts with a non-empty unscanned
\* set and ends has added at least one previously unscanned domain to the
\* persisted scanned set and removed none; and under repeated runs on a
\* fixed feed every domain of the universe is eventually attempted and the
\* full reset is eventually reached.
ForwardProgress ==
  /\ [](pc = "done" /\ Len(unscannedDomains) > 0 =>
          /\ loadedScanned \subseteq PersistedScanned
          /\ PersistedScanned \ loadedScanned # {}
          /\ (PersistedScanned \ loadedScanned) \subseteq Range(unscannedDomains))
  /\ <>(Range(Universe) \subseteq everAttempted)
  /\ <>(pc = "reset")

\* the reset is reached with the whole of a non-empty universe scanned
ForwardProgressWitness ==
  /\ pc = "reset"
  /\ Universe # <<>>
  /\ loadedScanned = Range(Universe)
  /\ everAttempted = Range(Universe)

\* C12 (domain crawl failure): when crawlDomain throws, the exception does
\* not leave main; the handler writes nothing to the result store, which
\* still holds what it held at the start of the run, adds the domain to the
\* persisted scanned list exactly as an attempt without forms does, and
\* goes back to the loop test with formsFound unset; and from the loop
\* test, while the budget is not exhausted, the next step is the crawl of
\* the next unscanned domain.
CrawlFailureHandled ==
  /\ [](lastThrew => (pc # "crashed" /\ forms = <<>> /\ resultDir = dirAtStart))
  /\ [][(pc = "catch" /\ lastThrew) =>
          /\ pc' = "loop"
          /\ resultDir' = resultDir
          /\ statFile'.scanned = Append(statFile.scanned, unscannedDomains[domainIndex + 1])
          /\ statFile'.lastUpdate = clock'
          /\ statFile' = stats'
          /\ domainIndex' = domainIndex + 1
          /\ formsFound' = FALSE]_vars
  /\ [][(pc = "loop" /\ lastThrew /\ domainIndex < maxAttempts) =>
          /\ pc' \in {"catch", "crawled"}
          /\ attempted' = Append(attempted, unscannedDomains[domainIndex + 1])]_vars

\* a first crawl threw, its domain is persisted as scanned, nothing was
\* stored and the loop is about to go on with the second domain
CrawlFailureWitness ==
  /\ pc = "loop"
  /\ lastThrew
  /\ domainIndex = 1
  /\ maxAttempts > 1
  /\ statFile.scanned = <<unscannedDomains[1]>>
  /\ resultDir = dirAtStart

\* C20 (feed fetch failure keeps progress): in a run, whichever fetches
\* failed, a domain loaded as scanned is missing from the persisted scanned
\* list only if every domain of the full universe was loaded as scanned;
\* and a run in which both fetches failed, so that nothing was collected
\* from a universe that is not empty, leaves the persisted scanned list as
\* it was.
FetchFailureKeepsProgress ==
  pc # "idle" =>
    /\ ~(loadedScanned \subseteq PersistedScanned) => Range(Universe) \subseteq loadedScanned
    /\ (allDomains = <<>> /\ Universe # <<>>) => PersistedScanned = ScannedSet(statAtStart)

(***************************************************************************)
(* crawlDomain (lines 131-234).  A URL is [host, page]: pages 1, 2 and 3   *)
(* of a domain are https://{domain}, https://www.{domain} and              *)
(* http://{domain}.  The web answers for each page with its forms and its  *)
(* same-site links (what the two page.evaluate calls return).              *)
(***************************************************************************)
\* the sites crawled: an unbounded tree of pages with 12 links each, a
\* chain of pages without end, and a ring of 5 pages with repeated links
Sites == {<<"t">>, <<"c">>, <<"r">>}

LinksPerTreePage == 12

RingSize == 5

\* the links of a page after the same-site filter (lines 206-219)
LinksOf(site, page) ==
  IF site = <<"t">>
    THEN [i \in 1..LinksPerTreePage |-> Url(site, LinksPerTreePage * page + i)]
  ELSE IF site = <<"c">>
    THEN <<Url(site, page + 1)>>
  ELSE <<Url(site, (page % RingSize) + 1), Url(site, (page % RingSize) + 1), Url(site, 1)>>

\* the forms of a page (lines 172-202): every odd page has one
FormsOf(site, page) ==
  IF page % 2 = 1 THEN <<Form(site, page, 1, SmallBytes)>> ELSE <<>>

\* lines 148-158: the three roots, none of them visited yet
Seeds(site) == <<Url(site, 1), Url(site, 2), Url(site, 3)>>

\* while (toVisit.length > 0 && visited.size < 50)
VisitGuard(queue, seen) == Len(queue) > 0 /\ Cardinality(seen) < MaxVisited

\* links.slice(0, 10)
FirstLinks(links) == SubSeq(links, 1, Min(Len(links), MaxLinksPerPage))

CanEnqueueNoCap(queue, seen, link) == link \notin seen

\* !visited.has(link) && toVisit.length < 100
CanEnqueue(queue, seen, link) == link \notin seen /\ Len(queue) < MaxQueue

\* lines 221-225: the queue after the loop over the first links
RECURSIVE EnqueueLinks(_, _, _)
EnqueueLinks(queue, seen, links) ==
  IF links = <<>> THEN queue
  ELSE CHOOSE result \in
         {EnqueueLinks(next, seen, Tail(links)) :
            next \in {IF CanEnqueue(queue, seen, Head(links))
                        THEN Append(queue, Head(links)) ELSE queue}} :
         TRUE

\* the URLs pushed so far, in the order of their first push, after the
\* loop of lines 221-225
RECURSIVE EnqueueOrder(_, _, _, _)
EnqueueOrder(order, queue, seen, links) ==
  IF links = <<>> THEN order
  ELSE CHOOSE result \in
         {EnqueueOrder(nextOrder, nextQueue, seen, Tail(links)) :
            nextOrder \in {IF CanEnqueue(queue, seen, Head(links))
                             THEN SetAdd(order, Head(links)) ELSE order},
            nextQueue \in {IF CanEnqueue(queue, seen, Head(links))
                             THEN Append(queue, Head(links)) ELSE queue}} :
         TRUE

\* a renderer call resolving (TRUE) or rejecting (FALSE)
RendererOutcomes == IF rendererFaults > 0 THEN {TRUE, FALSE} ELSE {TRUE}

\* one page: all three awaits resolve, goto or the forms script rejects,
\* or the links script rejects
PageOutcomes == IF pageFaults > 0 THEN {"ok", "gotoFail", "linksFail"} ELSE {"ok"}

\* lines 131-135: crawlDomain is called and launches a browser
Launch ==
  /\ cpc \in {"idle", "returned", "threw"}
  /\ \E site \in Sites, ok \in RendererOutcomes :
       /\ domain' = site
       /\ browsers' = IF ok THEN browsers + 1 ELSE browsers
       /\ cpc' = IF ok THEN "launched" ELSE "threw"
       /\ rendererFaults' = IF ok THEN rendererFaults ELSE rendererFaults - 1
  /\ visited' = {}
  /\ toVisit' = <<>>
  /\ crawlForms' = <<>>
  /\ url' = Url(<<>>, 0)
  /\ navigated' = <<>>
  /\ offered' = 0
  /\ enqueued' = 0
  /\ firstEnqueued' = <<>>
  /\ UNCHANGED <<envVars, diskVars, mainVars, histVars, storeVars, pageFaults>>

\* lines 137-139: browser.newContext
NewContext ==
  /\ cpc = "launched"
  /\ \E ok \in RendererOutcomes :
       /\ cpc' = IF ok THEN "context" ELSE "threw"
       /\ rendererFaults' = IF ok THEN rendererFaults ELSE rendererFaults - 1
  /\ UNCHANGED <<envVars, diskVars, mainVars, histVars, storeVars, domain, browsers, pageFaults,
                 visited, toVisit, crawlForms, url, navigated, offered, enqueued,
                 firstEnqueued>>

\* lines 141-158: context.newPage, the locals and the seeds
NewPage ==
  /\ cpc = "context"
  /\ \E ok \in RendererOutcomes :
       /\ cpc' = IF ok THEN "loop" ELSE "threw"
       /\ toVisit' = IF ok THEN Seeds(domain) ELSE toVisit
       /\ firstEnqueued' = IF ok THEN Seeds(domain) ELSE firstEnqueued
       /\ rendererFaults' = IF ok THEN rendererFaults ELSE rendererFaults - 1
  /\ UNCHANGED <<envVars, diskVars, mainVars, histVars, storeVars, domain, browsers, pageFaults,
                 visited, crawlForms, url, navigated, offered, enqueued>>

DequeueLifo ==
  /\ cpc = "loop"
  /\ VisitGuard(toVisit, visited)
  /\ url' = toVisit[Len(toVisit)]
  /\ toVisit' = SubSeq(toVisit, 1, Len(toVisit) - 1)
  /\ cpc' = IF toVisit[Len(toVisit)] \in visited THEN "loop" ELSE "page"
  /\ visited' = visited \cup {toVisit[Len(toVisit)]}
  /\ UNCHANGED <<envVars, diskVars, mainVars, histVars, storeVars, domain, browsers,
                 rendererFaults, pageFaults, crawlForms, navigated, offered, enqueued,
                 firstEnqueued>>

DequeueRequeue ==
  /\ cpc = "loop"
  /\ VisitGuard(toVisit, visited)
  /\ url' = Head(toVisit)
  /\ toVisit' = IF Head(toVisit) \in visited
                  THEN Append(Tail(toVisit), Head(toVisit)) ELSE Tail(toVisit)
  /\ cpc' = IF Head(toVisit) \in visited THEN "loop" ELSE "page"
  /\ visited' = visited \cup {Head(toVisit)}
  /\ UNCHANGED <<envVars, diskVars, mainVars, histVars, storeVars, domain, browsers,
                 rendererFaults, pageFaults, crawlForms, navigated, offered, enqueued,
                 firstEnqueued>>

DequeueNoSkip ==
  /\ cpc = "loop"
  /\ VisitGuard(toVisit, visited)
  /\ url' = Head(toVisit)
  /\ toVisit' = Tail(toVisit)
  /\ cpc' = "page"
  /\ visited' = visited \cup {Head(toVisit)}
  /\ UNCHANGED <<envVars, diskVars, mainVars, histVars, storeVars, domain, browsers,
                 rendererFaults, pageFaults, crawlForms, navigated, offered, enqueued,
                 firstEnqueued>>

\* lines 160-164: the loop test, shift, the visited test and visited.add
Dequeue ==
  /\ cpc = "loop"
  /\ VisitGuard(toVisit, visited)
  /\ url' = Head(toVisit)
  /\ toVisit' = Tail(toVisit)
  /\ cpc' = IF Head(toVisit) \in visited THEN "loop" ELSE "page"
  /\ visited' = visited \cup {Head(toVisit)}
  /\ UNCHANGED <<envVars, diskVars, mainVars, histVars, storeVars, domain, browsers,
                 rendererFaults, pageFaults, crawlForms, navigated, offered, enqueued,
                 firstEnqueued>>

NavigateAbort ==
  /\ cpc = "page"
  /\ \E out \in PageOutcomes :
       LET links == LinksOf(domain, url.page)
       IN  /\ crawlForms' = IF out = "gotoFail" THEN crawlForms
                            ELSE crawlForms \o FormsOf(domain, url.page)
           /\ toVisit' = IF out = "ok"
                           THEN EnqueueLinks(toVisit, visited, FirstLinks(links))
                           ELSE toVisit
           /\ firstEnqueued' = IF out = "ok"
                                 THEN EnqueueOrder(firstEnqueued, toVisit, visited, FirstLinks(links))
                                 ELSE firstEnqueued
           /\ offered' = IF out = "ok" THEN Len(links) ELSE 0
           /\ pageFaults' = IF out = "ok" THEN pageFaults ELSE pageFaults - 1
           /\ cpc' = IF out = "ok" THEN "loop" ELSE "threw"
  /\ enqueued' = Len(toVisit') - Len(toVisit)
  /\ navigated' = Append(navigated, url)
  /\ UNCHANGED <<envVars, diskVars, mainVars, histVars, storeVars, domain, browsers,
                 rendererFaults, visited, url>>

\* lines 166-229: goto, the two scripts, the enqueueing, and the handler
Navigate ==
  /\ cpc = "page"
  /\ \E out \in PageOutcomes :
       LET links == LinksOf(domain, url.page)
       IN  /\ crawlForms' = IF out = "gotoFail" THEN crawlForms
                            ELSE crawlForms \o FormsOf(domain, url.page)
           /\ toVisit' = IF out = "ok"
                           THEN EnqueueLinks(toVisit, visited, FirstLinks(links))
                           ELSE toVisit
           /\ firstEnqueued' = IF out = "ok"
                                 THEN EnqueueOrder(firstEnqueued, toVisit, visited, FirstLinks(links))
                                 ELSE firstEnqueued
           /\ offered' = IF out = "ok" THEN Len(links) ELSE 0
           /\ pageFaults' = IF out = "ok" THEN pageFaults ELSE pageFaults - 1
  /\ enqueued' = Len(toVisit') - Len(toVisit)
  /\ navigated' = Append(navigated, url)
  /\ cpc' = "loop"
  /\ UNCHANGED <<envVars, diskVars, mainVars, histVars, storeVars, domain, browsers,
                 rendererFaults, visited, url>>

\* lines 232-233: browser.close and the return; a close that rejects leaves
\* the browser closed or open
Close ==
  /\ cpc = "loop"
  /\ ~VisitGuard(toVisit, visited)
  /\ \E ok \in RendererOutcomes, closed \in BOOLEAN :
       /\ ok => closed
       /\ cpc' = IF ok THEN "returned" ELSE "threw"
       /\ browsers' = IF closed THEN browsers - 1 ELSE browsers
       /\ rendererFaults' = IF ok THEN rendererFaults ELSE rendererFaults - 1
  /\ UNCHANGED <<envVars, diskVars, mainVars, histVars, storeVars, domain, pageFaults,
                 visited, toVisit, crawlForms, url, navigated, offered, enqueued,
                 firstEnqueued>>

NextCrawl == Launch \/ NewContext \/ NewPage \/ Dequeue \/ Navigate \/ Close

\* crawlDomain called again and again, as the loop of main does, on a web
\* where renderer calls and pages may fail
InitCrawl ==
  /\ InitMain
  /\ domainsFeed = <<>>
  /\ ioFaults = 0
  /\ statFile = NoStatFile
  /\ CrawlIdle
  /\ StoreIdle
  /\ rendererFaults = MaxRendererFaults
  /\ pageFaults = MaxPageFaults

SpecCrawl == InitCrawl /\ [][NextCrawl]_vars

(***************************************************************************)
(* Properties of the frontier crawler.                                     *)
(***************************************************************************)
\* C6 (frontier caps): visited never holds more than 50 URLs, toVisit
\* never holds more than 100 entries, no page causes more than 10 URLs to
\* be enqueued, and when the loop has ended either 50 URLs are visited or
\* the queue is empty.
FrontierCaps ==
  /\ Cardinality(visited) <= 50
  /\ Len(toVisit) <= 100
  /\ enqueued <= 10
  /\ enqueued <= offered
  /\ cpc = "returned" => (Cardinality(visited) = 50 \/ toVisit = <<>>)

\* a crawl returned at the visit cap with a full queue, its last page
\* having offered more than 10 links
FrontierCapsWitness ==
  /\ cpc = "returned"
  /\ Cardinality(visited) = 50
  /\ Len(toVisit) = 100
  /\ offered > 10

\* C7 (renderer release): whenever crawlDomain has returned or thrown, no
\* browser is open, and while a crawl runs the only browser open is its own.
RendererReleased ==
  /\ cpc \in {"idle", "returned", "threw"} => browsers = 0
  /\ cpc \in {"launched", "context", "loop", "page"} => browsers = 1

\* C14 (visited set): a URL is in visited before it is navigated to, every
\* URL navigated to is in visited, no URL is navigated to twice in one
\* crawl, and visited holds nothing but the URLs navigated to and the one
\* about to be.
VisitedInvariant ==
  /\ cpc = "page" => (url \in visited /\ url \notin Range(navigated))
  /\ Range(navigated) \subseteq visited
  /\ \A i, j \in 1..Len(navigated) : navigated[i] = navigated[j] => i = j
  /\ Cardinality(visited) = Len(navigated) + (IF cpc = "page" THEN 1 ELSE 0)

\* on the ring, where pages link back and the queue holds a URL several
\* times, a URL navigated to before was dequeued again and skipped
VisitedInvariantWitness ==
  /\ cpc = "loop"
  /\ domain = <<"r">>
  /\ url \in Range(navigated)
  /\ navigated[Len(navigated)] # url
  /\ \E i, j \in 1..Len(toVisit) : i < j /\ toVisit[i] = toVisit[j]

\* C16 (BFS order): the URLs navigated to are, in order, the first URLs
\* pushed to the queue in the order of their first push, which begins with
\* the seeds https://{domain}, https://www.{domain}, http://{domain}; and a
\* dequeued URL that is already visited is dropped from the queue without
\* a navigation and without a change of visited.
BfsOrder ==
  /\ [](/\ Len(navigated) <= Len(firstEnqueued)
        /\ navigated = SubSeq(firstEnqueued, 1, Len(navigated))
        /\ cpc = "page" => url = firstEnqueued[Len(navigated) + 1]
        /\ cpc \in {"loop", "page", "returned"} =>
             SubSeq(firstEnqueued, 1, 3) =
               <<[host |-> domain, page |-> 1], [host |-> domain, page |-> 2],
                 [host |-> domain, page |-> 3]>>)
  /\ [][(/\ cpc = "loop"
         /\ Len(toVisit) > 0
         /\ Cardinality(visited) < 50
         /\ Head(toVisit) \in visited) =>
          /\ cpc' = "loop"
          /\ toVisit' = Tail(toVisit)
          /\ navigated' = navigated
          /\ visited' = visited]_vars

\* on the ring the three seeds were navigated to, the repeated entries of
\* the second and third were skipped, and the fourth URL pushed is next
BfsOrderWitness ==
  /\ cpc = "page"
  /\ domain = <<"r">>
  /\ navigated = Seeds(domain)
  /\ url = Url(domain, 4)
  /\ firstEnqueued[4] = url
  /\ Cardinality(visited) = 4

\* C17 (page failure): when the navigation to a URL or the extraction on
\* its page fails, the URL stays in visited, the queue is left as it was,
\* the forms collected before are still there, in order, at the head of the
\* collected forms, and the crawl is back at its loop test; and from the
\* loop test, while the queue is not empty and fewer than 50 URLs are
\* visited, the next step takes the next queued URL.
PageFailureRecoverable ==
  /\ [][(cpc = "page" /\ pageFaults' < pageFaults) =>
          /\ cpc' = "loop"
          /\ url \in visited'
          /\ visited' = visited
          /\ toVisit' = toVisit
          /\ Len(crawlForms') >= Len(crawlForms)
          /\ SubSeq(crawlForms', 1, Len(crawlForms)) = crawlForms]_vars
  /\ [][(cpc = "loop" /\ Len(toVisit) > 0 /\ Cardinality(visited) < 50) =>
          /\ cpc' \in {"loop", "page"}
          /\ url' = Head(toVisit)
          /\ crawlForms' = crawlForms]_vars

\* a page failed after forms were collected, nothing was enqueued for it,
\* and the crawl has gone on to the next queued URL
PageFailureWitness ==
  /\ cpc = "page"
  /\ pageFaults < MaxPageFaults
  /\ offered = 0
  /\ enqueued = 0
  /\ Len(navigated) >= 2
  /\ navigated[Len(navigated)] \in visited
  /\ url \notin Range(navigated)
  /\ crawlForms # <<>>

\* crawls whose renderer calls all resolve and whose awaits all settle
\* (page.goto is given a timeout, line 169); pages may still fail
InitCrawlLive ==
  /\ InitMain
  /\ domainsFeed = <<>>
  /\ ioFaults = 0
  /\ statFile = NoStatFile
  /\ CrawlIdle
  /\ StoreIdle
  /\ rendererFaults = 0
  /\ pageFaults = MaxPageFaults

SpecCrawlLive == InitCrawlLive /\ [][NextCrawl]_vars /\ WF_vars(NextCrawl)

\* the forms of the pages, in order
RECURSIVE FormsOfPages(_)
FormsOfPages(pages) ==
  IF pages = <<>> THEN <<>>
  ELSE FormsOf(Head(pages).host, Head(pages).page) \o FormsOfPages(Tail(pages))

\* C15 (termination): on every link graph, finite or not, cyclic or not,
\* and whichever pages fail, a crawl that has entered its visit loop
\* returns; when it has returned the queue is empty or 50 URLs are
\* visited, and what it returns holds only forms of pages navigated to,
\* all of them in navigation order when no page failed.
CrawlTerminates ==
  /\ [](cpc \in {"loop", "page"} => <>(cpc = "returned"))
  /\ [](cpc = "returned" =>
          /\ toVisit = <<>> \/ Cardinality(visited) = 50
          /\ \A i \in 1..Len(crawlForms) : crawlForms[i].url \in Range(navigated)
          /\ pageFaults = MaxPageFaults => crawlForms = FormsOfPages(navigated))

\* a crawl of the chain without end returned at the visit cap, one of its
\* pages having failed
CrawlTerminatesWitness ==
  /\ cpc = "returned"
  /\ domain = <<"c">>
  /\ Cardinality(visited) = 50
  /\ toVisit # <<>>
  /\ pageFaults < MaxPageFaults
  /\ crawlForms # <<>>

(***************************************************************************)
(* saveResults called on its own, on a directory that starts empty.        *)
(***************************************************************************)
\* the records handed to the n-th call: one or two small ones, or a big one
StoreForms(n) ==
  { <<Form(<<"s">>, n, 1, SmallBytes)>>,
    <<Form(<<"s">>, n, 1, SmallBytes), Form(<<"s">>, n, 2, SmallBytes)>>,
    <<Form(<<"s">>, n, 1, BigBytes)>> }

\* lines 96-100
SaveResults ==
  /\ saves < MaxSaves
  /\ \E fs \in StoreForms(saves + 1), io \in StoreOutcomes :
       /\ dirBefore' = resultDir
       /\ lastForms' = fs
       /\ lastTarget' = getNextResultFile(resultDir, io # "listFail", io # "statFail")
       /\ resultDir' = saveResults(resultDir, fs, io)
       /\ allGiven' = IF saveResultsThrows(resultDir, io) THEN allGiven ELSE allGiven \o fs
       /\ ioFaults' = IF io = "ok" THEN ioFaults ELSE ioFaults - 1
  /\ saves' = saves + 1
  /\ UNCHANGED <<domainsFeed, wildcardsFeed, netFaulty, yields, clock, statFile,
                 mainVars, histVars, crawlVars>>

NextStore == SaveResults

InitStore ==
  /\ InitMain
  /\ domainsFeed = <<>>
  /\ ioFaults = 0
  /\ statFile = NoStatFile
  /\ CrawlIdle
  /\ StoreIdle
  /\ rendererFaults = 0
  /\ pageFaults = 0

SpecStore == InitStore /\ [][NextStore]_vars

\* C8 (shard selection and rotation): with no shard present the target is
\* forms.json with no existing record; otherwise the candidate is the shard
\* of highest numeric suffix, forms.json counting as 0; when its size is
\* below 20 MiB it is the target and its records are the existing ones, and
\* when its size is 20 MiB or more the target is the shard of suffix
\* highest + 1 with no existing record.
ShardSelection ==
  saves > 0 =>
    LET suffix(f) == IF f = FormsJson THEN 0 ELSE f.n
    IN  IF DOMAIN dirBefore = {}
          THEN lastTarget.path = FormsJson /\ lastTarget.data = <<>>
          ELSE LET top == CHOOSE f \in DOMAIN dirBefore :
                            \A g \in DOMAIN dirBefore : suffix(g) <= suffix(f)
               IN  /\ dirBefore[top].size < 20 * 1024 * 1024 =>
                        /\ lastTarget.path = top
                        /\ lastTarget.data = dirBefore[top].data
                   /\ dirBefore[top].size >= 20 * 1024 * 1024 =>
                        /\ lastTarget.path = [indexed |-> TRUE, n |-> suffix(top) + 1]
                        /\ lastTarget.data = <<>>
                   /\ lastTarget.path \in DOMAIN resultDir

\* forms.json held exactly 20 MiB and the call went to the new forms_1.json
ShardSelectionWitness ==
  /\ saves > 0
  /\ DOMAIN dirBefore = {FormsJson}
  /\ dirBefore[FormsJson].size = 20 * 1024 * 1024
  /\ lastTarget.path = FormsN(1)
  /\ FormsN(1) \in DOMAIN resultDir

\* C9 (append preserves prior content): after saveResults the target shard
\* holds what it held before, in that order, followed by the new records in
\* their order, so its count grew by the number of new records; and after
\* any sequence of calls the store holds every record given, once, in the
\* order given.
AppendPreserves ==
  saves > 0 =>
    LET target == lastTarget.path
        prior == IF target \in DOMAIN dirBefore THEN dirBefore[target].data ELSE <<>>
    IN  /\ resultDir[target].data = prior \o lastForms
        /\ Len(resultDir[target].data) = Len(prior) + Len(lastForms)
        /\ AllRecords(resultDir) = allGiven
        /\ \A i, j \in 1..Len(AllRecords(resultDir)) :
             AllRecords(resultDir)[i] = AllRecords(resultDir)[j] => i = j

\* records were appended to forms_1.json, which already held some
AppendPreservesWitness ==
  /\ saves > 0
  /\ lastTarget.path = FormsN(1)
  /\ lastTarget.data # <<>>
  /\ Len(resultDir[FormsN(1)].data) > Len(lastTarget.data)

\* C18 (older shards are frozen): a call of saveResults changes or creates
\* exactly one file; that file is the existing shard of highest index, or a
\* new shard whose index is the highest index plus one (forms.json in an
\* empty directory); every other file is as it was; and no file is ever
\* named forms_0.json.
ShardsFrozen ==
  saves > 0 =>
    LET written == {name \in DOMAIN resultDir :
                      name \notin DOMAIN dirBefore \/ resultDir[name] # dirBefore[name]}
        index(name) == IF name.indexed THEN name.n ELSE 0
    IN  /\ DOMAIN dirBefore \subseteq DOMAIN resultDir
        /\ Cardinality(written) = 1
        /\ \A name \in written :
             /\ \A other \in DOMAIN dirBefore : index(other) <= index(name)
             /\ name \notin DOMAIN dirBefore =>
                  \/ DOMAIN dirBefore = {} /\ name = [indexed |-> FALSE, n |-> 0]
                  \/ /\ name.indexed
                     /\ \E top \in DOMAIN dirBefore : name.n = index(top) + 1
        /\ \A name \in DOMAIN resultDir : ~(name.indexed /\ name.n = 0)

\* with forms.json and forms_1.json present, a call appended to
\* forms_1.json and left forms.json as it was
ShardsFrozenWitness ==
  /\ saves > 0
  /\ DOMAIN dirBefore = {FormsJson, FormsN(1)}
  /\ resultDir[FormsN(1)] # dirBefore[FormsN(1)]
  /\ resultDir[FormsJson] = dirBefore[FormsJson]
  /\ dirBefore[FormsJson].data # <<>>

(***************************************************************************)
(* Runs of main on a scan state file of any content.                       *)
(***************************************************************************)
\* what stat/scanned.json can hold before a run: nothing, text that is not
\* JSON, null, a primitive, an object without scanned, a saved scan state
StatFiles ==
  { NoStatFile,
    [t |-> "garbage", hasScanned |-> FALSE, scanned |-> <<>>, lastUpdate |-> 0],
    [t |-> "null", hasScanned |-> FALSE, scanned |-> <<>>, lastUpdate |-> 0],
    [t |-> "prim", hasScanned |-> FALSE, scanned |-> <<>>, lastUpdate |-> 0],
    [t |-> "obj", hasScanned |-> FALSE, scanned |-> <<>>, lastUpdate |-> 0],
    ScanState(<< <<"a">> >>, 1) }

InitLoad ==
  /\ InitMain
  /\ CrawlIdle
  /\ StoreIdle
  /\ rendererFaults = 0
  /\ pageFaults = 0
  /\ ioFaults = 0
  /\ statFile \in StatFiles

SpecLoad == InitLoad /\ [][Next]_vars

\* runs of main over the short feed, fetched without failure, on a storage
\* whose calls may fail
InitFault ==
  /\ InitMain
  /\ domainsFeed = SmallDomainsText
  /\ netFaulty = FALSE
  /\ CrawlIdle
  /\ StoreIdle
  /\ rendererFaults = 0
  /\ pageFaults = 0
  /\ ioFaults = MaxIoFaults
  /\ statFile = NoStatFile

SpecFault == InitFault /\ [][Next]_vars

\* C13 (unrecoverable storage failures escape): once a read or a write of
\* a result shard in saveResults, or a write of the scan state in
\* saveScannedDomains, has failed in a run, the run has ended by the
\* exception: the per-domain handler is not running, the loop is not going
\* on, and no domain was attempted after the one in hand at the failure.
StorageFailuresEscape ==
  storageFailed => pc = "crashed"

\* C19 (results before scanned): at every point of a run, every form that
\* a crawl of the run returned for a domain of the persisted scanned list
\* is held by a result shard.
ResultsBeforeScanned ==
  \A i \in 1..Len(runForms) :
    runForms[i].url.host \in PersistedScanned =>
      \E j \in 1..Len(AllRecords(resultDir)) : AllRecords(resultDir)[j] = runForms[i]

\* a file that is missing, unreadable, not JSON, or JSON of another shape
\* than {scanned: [string], lastUpdate}
Malformed(file) ==
  \/ file.t \in {"missing", "garbage", "null", "prim"}
  \/ file.t = "obj" /\ ~file.hasScanned

\* C10 (scan state load tolerance): in a run that loaded a missing,
\* unreadable or malformed scan state file, the value loaded is
\* {scanned: [], lastUpdate: null}, and the run proceeds as one without
\* prior state: it does not end by an exception.
LoadTolerance ==
  (pc # "idle" /\ Malformed(statAtStart)) =>
    /\ loadedScanned = {}
    /\ (pc \in {"reset", "loop"} /\ attempted = <<>>) => stats = ScanState(<<>>, 0)
    /\ pc # "crashed"

(***************************************************************************)
(* fetchDomains on its own, over lists holding any short line.             *)
(***************************************************************************)
\* the characters of a line: the wildcard prefix, the comment mark, white
\* space and a letter
FeedChars == {"*", ".", "#", " ", "a"}

\* the length of the longest line tried
MaxLineLen == 3

\* every line of at most n characters
RECURSIVE LinesUpTo(_)
LinesUpTo(n) ==
  IF n = 0 THEN {<<>>}
  ELSE LinesUpTo(n - 1) \cup {Append(l, c) : l \in LinesUpTo(n - 1), c \in FeedChars}

\* main before its first run, with nothing fetched yet
MainIdle ==
  /\ clock = 1
  /\ resultDir = EmptyDir
  /\ pc = "idle"
  /\ allDomains = <<>>
  /\ stats = ScanState(<<>>, 0)
  /\ unscannedDomains = <<>>
  /\ formsFound = FALSE
  /\ domainIndex = 0
  /\ maxAttempts = 0
  /\ forms = <<>>
  /\ loadedScanned = {}
  /\ attempted = <<>>
  /\ yieldAt = 0
  /\ yieldForms = <<>>
  /\ dirAtStart = EmptyDir
  /\ statAtStart = NoStatFile
  /\ everAttempted = {}
  /\ lastThrew = FALSE
  /\ runForms = <<>>
  /\ storageFailed = FALSE

\* lines 17-50: one call of fetchDomains
FetchDomains ==
  /\ pc = "idle"
  /\ \E domainsOk \in FetchOutcomes, wildcardsOk \in FetchOutcomes :
       allDomains' = fetchDomains(domainsFeed, wildcardsFeed, domainsOk, wildcardsOk)
  /\ pc' = "fetched"
  /\ UNCHANGED <<envVars, diskVars, stats, unscannedDomains, formsFound, domainIndex,
                 maxAttempts, forms, histVars, crawlVars, storeVars>>

NextFeed == FetchDomains

\* the short feed with one more line, any line, at the end of the
\* exact-domain list or of the wildcard list; either fetch may fail
InitFeed ==
  /\ \E line \in LinesUpTo(MaxLineLen) :
       \/ /\ domainsFeed = Append(SmallDomainsText, line)
          /\ wildcardsFeed = SmallWildcardsText
       \/ /\ domainsFeed = SmallDomainsText
          /\ wildcardsFeed = Append(SmallWildcardsText, line)
  /\ netFaulty = TRUE
  /\ yields = 0
  /\ ioFaults = 0
  /\ statFile = NoStatFile
  /\ MainIdle
  /\ CrawlIdle
  /\ StoreIdle
  /\ rendererFaults = 0
  /\ pageFaults = 0

SpecFeed == InitFeed /\ [][NextFeed]_vars

\* C11 (feed ingestion filter): whatever the two lists hold, the domains
\* fetchDomains returns include no empty string, no entry starting with
\* '#' and no entry starting with the wildcard prefix '*.'.
FeedFilter ==
  pc = "fetched" =>
    \A i \in 1..Len(allDomains) :
      LET entry == allDomains[i]
      IN  /\ entry # <<>>
          /\ entry[1] # "#"
          /\ ~(Len(entry) >= 2 /\ entry[1] = "*" /\ entry[2] = ".")

====
